---- MODULE Spec2Model ----
(***************************************************************************)
(* Request-admission layer of kerhael/accounting: the per-client token     *)
(* bucket limiter of pkg/middleware/rate_limiter.go, the routes it guards  *)
(* (internal/router/v1.go) and the handlers behind it.                     *)
(*                                                                         *)
(* Time is counted in whole minutes (the unit of the two durations of the  *)
(* reclaimer).  A limiter's rate is the rational num/den tokens per        *)
(* minute; token counts are kept in units of 1/den token, so that the      *)
(* refill arithmetic of rate.Limiter is exact.  rate.Limiter.Allow is one  *)
(* atomic step (it runs under the limiter's own mutex) that reads the      *)
(* clock when it runs; the special limits 0 and Inf are not instantiated.  *)
(***************************************************************************)
EXTENDS Integers, Sequences, FiniteSets, TLC

\* ---- bounds of the model ----
MaxTime == 4          \* the clock stops after this many minutes
MaxRequests == 3      \* requests started in one behaviour of Spec
MaxHTTPRequests == 2  \* requests started in one behaviour of SpecHTTP
MaxTokens == 1        \* tokens issued in one behaviour of SpecAuth
MaxClockSlack == 1    \* how far beyond one token lifetime SpecAuth's clock runs
MaxHashes == 2        \* password hashes computed in one behaviour of SpecHash
MaxSweepTime == 5     \* the clock of SpecFair stops after this many minutes
MaxFairRequests == 2  \* requests started in one behaviour of SpecFair
MaxBurstRequests == 6 \* requests started in one behaviour of SpecMain
MaxKeyRequests == 3   \* requests started in one behaviour of SpecKeys

\* ---- program constants (minutes) ----
SleepInterval == 1    \* time.Sleep(time.Minute)
IdleThreshold == 3    \* 3*time.Minute

\* ---- token service constants ----
\* The token service reads time.Now() and keeps its Unix() seconds: the
\* clock it sees is counted in ticks of half a second.
TicksPerSecond == 2
SecondsPerMinute == 60
TokenTTL == 86400     \* 24 * time.Hour, in seconds
testSecret == "test_jwt_secret"
anotherSecret == "another_secret"
Secrets == {testSecret, anotherSecret}
UserIDs == {7, 99}

WorkerOrder == <<"w1", "w2">>
Workers == {WorkerOrder[i] : i \in DOMAIN WorkerOrder}
FirstWorker == WorkerOrder[1]
Cleaner == "cleanup"
Free == "free"

\* Remote addresses "host:port" as <<host, port>>; an address that
\* net.SplitHostPort cannot split is a one-element tuple.
RemoteAddrs == {<<"A", "1111">>, <<"A", "2222">>, <<"B", "1111">>}
\* Clients are interchangeable names: the first request of a behaviour is
\* taken to come from this address.
FirstAddr == <<"A", "1111">>
Keys == {"A", "B", ""}

Routes == {"users", "login", "health"}

\* NewRateLimiter(r, burst) arguments: r = num/den tokens per minute.
\*   3/50 per minute (0.001/s), burst 1 : the tests' slow limiter
\*   1 per minute, burst 2              : a token refills within the model's
\*                                        horizon
\* (main() uses 60 per minute, burst 5: its bucket never runs dry within
\* MaxRequests requests.)
Configs == { [num |-> 3,  den |-> 50, burst |-> 1],
             [num |-> 1,  den |-> 1,  burst |-> 2] }

NoClient == [limiter |-> 0, lastSeen |-> 0]
NoLimiter == 0

VARIABLES
  cfg,       \* rl.r and rl.burst
  now,       \* the clock, in minutes
  clients,   \* rl.clients : key -> NoClient (absent) or [limiter, lastSeen]
  heap,      \* the rate.Limiter objects ever allocated: Seq of
             \* [tokens, last, key]; key (the key it was created for) is history
  mu,        \* rl.mu : Free or its holder
  cpc,       \* position of the cleanup goroutine
  sleepLeft, \* minutes its current time.Sleep still has to last
  pc,        \* position of each request worker
  req,       \* the request a worker is serving: [from, route] of the request
             \* and the middleware's local variable ip
  limiter,   \* the worker's local variable limiter (an index of heap)
  created,   \* whether this worker's getLimiter call allocated the limiter
  admitted,  \* result of Allow for the request being served
  resp,      \* what was written to the request's ResponseWriter, in order
  calls,     \* number of times next.ServeHTTP was called for the request
  effects,   \* what the downstream handler did for the request
  log,       \* history of admission decisions, in the order they were taken
  pwChecks,  \* password verifications performed by Login, per client
  started,   \* number of requests started so far
  jwtService,\* the process's *JWTService: [key]
  clock,     \* the clock the token service and the auth gate read, in ticks
  pool,      \* the tokens jwtService has issued: set of [token, uid, at]
  seen,      \* the last call made to the gate, to a handler, to the token
             \* service or to the password functions, with what it returned
  hashes     \* the password hashes computed so far, in the order of the
             \* calls: Seq of [password, hash]

rlVars == <<cfg, now, clients, heap, mu, cpc, sleepLeft, pc, req, limiter,
            created, admitted, resp, calls, effects, log, pwChecks, started>>
authVars == <<jwtService, clock, pool, seen, hashes>>
vars == <<rlVars, authVars>>

NoReq == [from |-> "", ip |-> "", route |-> ""]

Cap == cfg.burst * cfg.den
One == cfg.den

\* ---- golang.org/x/time/rate, as used by the middleware ----

\* (fault) a bucket that starts empty
NewLimiter_empty(key) == [tokens |-> 0, last |-> 0, key |-> key]

\* rate.NewLimiter(rl.r, rl.burst): a full bucket, last = the zero time.
NewLimiter(key) == [tokens |-> Cap, last |-> 0, key |-> key]

\* (fault) refill without the cap at burst
advance_noCap(l, t) ==
  LET last    == IF t < l.last THEN t ELSE l.last
      elapsed == t - last
  IN  l.tokens + elapsed * cfg.num

\* Limiter.advance: the tokens available at time t (refill capped at burst).
advance(l, t) ==
  LET last    == IF t < l.last THEN t ELSE l.last
      elapsed == t - last
      tokens  == l.tokens + elapsed * cfg.num
  IN  IF tokens > Cap THEN Cap ELSE tokens

\* (fault) an admission that takes no token
reserveN_noConsume(l, t, n) ==
  LET tokens == advance(l, t) - n * One
      ok     == n <= cfg.burst /\ tokens >= 0
  IN  [ok  |-> ok,
       lim |-> IF ok THEN [l EXCEPT !.tokens = advance(l, t), !.last = t]
               ELSE l]

\* (fault) no availability check: every request is admitted
reserveN_noCheck(l, t, n) ==
  LET tokens == advance(l, t) - n * One
  IN  [ok  |-> TRUE,
       lim |-> [l EXCEPT !.tokens = tokens, !.last = t]]

\* (fault) a denied request is charged as well
reserveN_chargeDenied(l, t, n) ==
  LET tokens == advance(l, t) - n * One
      ok     == n <= cfg.burst /\ tokens >= 0
  IN  [ok  |-> ok,
       lim |-> [l EXCEPT !.tokens = tokens, !.last = t]]

\* Limiter.reserveN(t, n, 0): ok iff n tokens are available now; the state
\* (tokens, last) is updated only when ok.
reserveN(l, t, n) ==
  LET tokens == advance(l, t) - n * One
      ok     == n <= cfg.burst /\ tokens >= 0
  IN  [ok  |-> ok,
       lim |-> IF ok THEN [l EXCEPT !.tokens = tokens, !.last = t] ELSE l]

\* Limiter.Allow() = AllowN(time.Now(), 1)
Allow(l, t) == reserveN(l, t, 1)

\* ---- helpers of the middleware and of the router ----

\* The client a request comes from: the host of its remote address.
Client(addr) == addr[1]

\* An incoming request; ip is what the middleware computes from RemoteAddr.
Request(addr, route) ==
  [from |-> Client(addr), ip |-> "", route |-> route]

\* (fault) every address is mapped to the empty key
SplitHostPort_noHost(addr) == ""

\* (fault) an address without a port is used as the key as it is
SplitHostPort_rawOnError(addr) == addr[1]

\* net.SplitHostPort(r.RemoteAddr), error ignored: the host, or "" on error.
SplitHostPort(addr) == IF Len(addr) = 2 THEN addr[1] ELSE ""

\* (fault) the login route registered without the limiter
Guarded_usersOnly(route) == route \in {"users"}

\* RegisterV1Routes: the routes wrapped in rl.Middleware.
Guarded(route) == route \in {"users", "login"}

\* (fault) the status is never written: the response goes out as 200
WriteJSONError_noStatus(status, message) ==
  [status |-> 200, ctype |-> "application/json",
   body |-> [message |-> message]]

\* utils.WriteJSONError(w, status, message)
WriteJSONError(status, message) ==
  [status |-> status, ctype |-> "application/json",
   body |-> [message |-> message]]

\* utils.WriteJSON(w, status, payload)
WriteJSON(status, payload) ==
  [status |-> status, ctype |-> "application/json", body |-> payload]

ByLimiter(wr) == [by |-> "limiter", write |-> wr]
ByHandler(wr) == [by |-> "handler", write |-> wr]
ByGate(wr) == [by |-> "gate", write |-> wr]

\* ---- the token service (internal/auth) ----

\* time.Time.Unix() of a clock reading, and the reading of a whole minute.
Unix(t) == t \div TicksPerSecond
Ticks(minutes) == minutes * SecondsPerMinute * TicksPerSecond

\* NewJWTService(secret)
NewJWTService(secret) == [key |-> secret]

\* The MAC of HS256: it binds the signed content to the key.
HMAC(claims, key) == <<key, claims>>

\* A token string is header.payload.signature; form tells whether the string
\* has that shape at all, tail is what was appended after the signature.
NoClaims == [user_id |-> 0, exp |-> 0]
EmptyToken == [form |-> "empty", claims |-> NoClaims, mac |-> <<>>, tail |-> ""]
GarbageToken ==
  [form |-> "garbage", claims |-> NoClaims, mac |-> <<>>, tail |-> ""]

\* jwt.NewWithClaims(jwt.SigningMethodHS256, claims).SignedString(key)
SignedString(claims, key) ==
  [form |-> "jwt", claims |-> claims, mac |-> HMAC(claims, key), tail |-> ""]

\* (fault) the expiry is the issuance time
GenerateJWT_noTTL(s, userID, t) ==
  [token |-> SignedString([user_id |-> userID, exp |-> Unix(t)], s.key),
   err |-> ""]

\* JWTService.GenerateJWT(userID) called at clock reading t
GenerateJWT(s, userID, t) ==
  [token |-> SignedString([user_id |-> userID, exp |-> Unix(t) + TokenTTL],
                          s.key),
   err |-> ""]

NoCustomClaims == [UserID |-> 0, ExpiresAt |-> 0]
Failed(err) == [claims |-> NoCustomClaims, err |-> err]

\* (fault) the signature is not verified
ValidateJWT_noSignature(s, tokenStr, t) ==
  IF tokenStr.form # "jwt" THEN Failed("token is malformed")
  ELSE IF ~(t < tokenStr.claims.exp * TicksPerSecond)
    THEN Failed("token is expired")
  ELSE [claims |-> [UserID |-> tokenStr.claims.user_id,
                    ExpiresAt |-> tokenStr.claims.exp],
        err |-> ""]

\* (fault) the expiry is not checked
ValidateJWT_noExpiry(s, tokenStr, t) ==
  IF tokenStr.form # "jwt" THEN Failed("token is malformed")
  ELSE IF tokenStr.tail # "" \/ tokenStr.mac # HMAC(tokenStr.claims, s.key)
    THEN Failed("signature is invalid")
  ELSE [claims |-> [UserID |-> tokenStr.claims.user_id,
                    ExpiresAt |-> tokenStr.claims.exp],
        err |-> ""]

\* (fault) after a refused verification the service refuses every token
ValidateJWT_lockout(s, tokenStr, t) ==
  IF seen.op = "ValidateJWT" /\ seen.out.err # ""
    THEN Failed("token is revoked")
  ELSE IF tokenStr.form # "jwt" THEN Failed("token is malformed")
  ELSE IF tokenStr.tail # "" \/ tokenStr.mac # HMAC(tokenStr.claims, s.key)
    THEN Failed("signature is invalid")
  ELSE IF ~(t < tokenStr.claims.exp * TicksPerSecond)
    THEN Failed("token is expired")
  ELSE [claims |-> [UserID |-> tokenStr.claims.user_id,
                    ExpiresAt |-> tokenStr.claims.exp],
        err |-> ""]

\* JWTService.ValidateJWT(tokenStr) called at clock reading t:
\* jwt.ParseWithClaims splits the string, verifies the HS256 signature with
\* s.key, then validates exp (valid while now is before exp); its error is
\* returned as it is.  err = "" is nil.
ValidateJWT(s, tokenStr, t) ==
  IF tokenStr.form # "jwt" THEN Failed("token is malformed")
  ELSE IF tokenStr.tail # "" \/ tokenStr.mac # HMAC(tokenStr.claims, s.key)
    THEN Failed("signature is invalid")
  ELSE IF ~(t < tokenStr.claims.exp * TicksPerSecond)
    THEN Failed("token is expired")
  ELSE [claims |-> [UserID |-> tokenStr.claims.user_id,
                    ExpiresAt |-> tokenStr.claims.exp],
        err |-> ""]

\* ---- the auth gate (internal/auth) ----

\* A context is the list of its values, the latest first.
Background == <<>>
userIDKey == "userIDKey"
Nil == [type |-> "nil", v |-> 0]
IntValue(n) == [type |-> "int", v |-> n]

\* context.WithValue(ctx, key, val)
WithValue(ctx, key, val) == <<[key |-> key, val |-> val]>> \o ctx

\* ctx.Value(key)
Value(ctx, key) ==
  IF \E i \in DOMAIN ctx : ctx[i].key = key
    THEN ctx[CHOOSE i \in DOMAIN ctx :
               /\ ctx[i].key = key
               /\ \A j \in DOMAIN ctx : ctx[j].key = key => i <= j].val
    ELSE Nil

\* GetUserIDFromContext(ctx): ctx.Value(userIDKey).(int)
GetUserIDFromContext(ctx) ==
  LET x == Value(ctx, userIDKey) IN
  IF x.type = "int" THEN <<x.v, TRUE>> ELSE <<0, FALSE>>

\* An Authorization header is <<scheme, rest>>; <<>> is no header.
Bearer == "Bearer "
HasPrefix(authHeader, prefix) == Len(authHeader) = 2 /\ authHeader[1] = prefix
TrimPrefix(authHeader, prefix) ==
  IF HasPrefix(authHeader, prefix) THEN authHeader[2] ELSE EmptyToken

\* what the gate did: its own writes, the calls of next, the context it
\* passed to next
Gate(writes, n, ctx) == [resp |-> writes, calls |-> n, ctx |-> ctx]

\* (fault) the claims are attached without looking at the verification error
AuthMiddleware_noErrCheck(s, authHeader, t) ==
  LET v == ValidateJWT(s, TrimPrefix(authHeader, Bearer), t) IN
  IF authHeader = <<>>
    THEN Gate(<<WriteJSONError(401, "missing token")>>, 0, Background)
  ELSE IF ~HasPrefix(authHeader, Bearer)
    THEN Gate(<<WriteJSONError(401, "invalid token format")>>, 0, Background)
  ELSE Gate(<<>>, 1, WithValue(Background, userIDKey, IntValue(v.claims.UserID)))

\* (fault) the verification error is passed on to the client
AuthMiddleware_leaksErr(s, authHeader, t) ==
  LET v == ValidateJWT(s, TrimPrefix(authHeader, Bearer), t) IN
  IF authHeader = <<>>
    THEN Gate(<<WriteJSONError(401, "missing token")>>, 0, Background)
  ELSE IF ~HasPrefix(authHeader, Bearer)
    THEN Gate(<<WriteJSONError(401, "invalid token format")>>, 0, Background)
  ELSE IF v.err # ""
    THEN Gate(<<WriteJSONError(401, v.err)>>, 0, Background)
  ELSE Gate(<<>>, 1, WithValue(Background, userIDKey, IntValue(v.claims.UserID)))

\* (fault) a request without header is let through
AuthMiddleware_noHeaderCheck(s, authHeader, t) ==
  LET v == ValidateJWT(s, TrimPrefix(authHeader, Bearer), t) IN
  IF authHeader = <<>>
    THEN Gate(<<>>, 1, Background)
  ELSE IF ~HasPrefix(authHeader, Bearer)
    THEN Gate(<<WriteJSONError(401, "invalid token format")>>, 0, Background)
  ELSE IF v.err # ""
    THEN Gate(<<WriteJSONError(401, "invalid token")>>, 0, Background)
  ELSE Gate(<<>>, 1, WithValue(Background, userIDKey, IntValue(v.claims.UserID)))

\* AuthMiddleware(jwtService)(next) serving a request with this
\* Authorization header at clock reading t
AuthMiddleware(s, authHeader, t) ==
  LET v == ValidateJWT(s, TrimPrefix(authHeader, Bearer), t) IN
  IF authHeader = <<>>
    THEN Gate(<<WriteJSONError(401, "missing token")>>, 0, Background)
  ELSE IF ~HasPrefix(authHeader, Bearer)
    THEN Gate(<<WriteJSONError(401, "invalid token format")>>, 0, Background)
  ELSE IF v.err # ""
    THEN Gate(<<WriteJSONError(401, "invalid token")>>, 0, Background)
  ELSE Gate(<<>>, 1, WithValue(Background, userIDKey, IntValue(v.claims.UserID)))

\* ---- initial state: NewRateLimiter(r, burst), no request in flight ----
NoCall == [op |-> "none"]

\* main(): auth.NewJWTService(cfg.JWTSecret), the secret being one of
\* secrets; nothing issued or called yet
InitAuth(secrets) ==
  /\ jwtService \in {NewJWTService(secret) : secret \in secrets}
  /\ clock = 0
  /\ pool = {}
  /\ seen = NoCall
  /\ hashes = <<>>

\* the RateLimiter that NewRateLimiter returns, and the workers at rest
InitRegistry ==
  /\ now = 0
  /\ clients = [k \in Keys |-> NoClient]
  /\ heap = <<>>
  /\ mu = Free
  /\ cpc = "sleep"
  /\ sleepLeft = SleepInterval
  /\ pc = [w \in Workers |-> "idle"]
  /\ req = [w \in Workers |-> NoReq]
  /\ limiter = [w \in Workers |-> NoLimiter]
  /\ created = [w \in Workers |-> FALSE]
  /\ admitted = [w \in Workers |-> FALSE]
  /\ resp = [w \in Workers |-> <<>>]
  /\ calls = [w \in Workers |-> 0]
  /\ effects = [w \in Workers |-> {}]
  /\ log = <<>>
  /\ pwChecks = [k \in Keys |-> 0]
  /\ started = 0

InitLimiter == cfg \in Configs /\ InitRegistry

Init == InitAuth({testSecret}) /\ InitLimiter

\* The passage of time.
Tick ==
  /\ now < MaxTime
  /\ now' = now + 1
  /\ sleepLeft' = IF sleepLeft > 0 THEN sleepLeft - 1 ELSE 0
  /\ UNCHANGED <<cfg, clients, heap, mu, cpc, pc, req, limiter, created,
                 admitted, resp, calls, effects, log, pwChecks, started>>
  /\ UNCHANGED authVars

\* ---- the cleanup goroutine ----

\* time.Sleep(time.Minute) has returned; rl.mu.Lock()
cleanupLock ==
  /\ cpc = "sleep"
  /\ sleepLeft = 0
  /\ mu = Free
  /\ mu' = Cleaner
  /\ cpc' = "sweep"
  /\ UNCHANGED <<cfg, now, clients, heap, sleepLeft, pc, req, limiter, created,
                 admitted, resp, calls, effects, log, pwChecks, started>>
  /\ UNCHANGED authVars

\* (fault) idleness measured from the bucket's last refill, which a denied
\* request does not move
Stale_byLastRefill(c, t) ==
  c # NoClient /\ t - heap[c.limiter].last > IdleThreshold

\* (fault) an entry is kept for one sweep interval too long
Stale_late(c, t) ==
  c # NoClient /\ t - c.lastSeen > IdleThreshold + SleepInterval

\* the range loop of cleanup: which entries one sweep at time t deletes
Stale(c, t) == c # NoClient /\ t - c.lastSeen > IdleThreshold

\* the range loop, rl.mu.Unlock(), and the next time.Sleep
cleanup ==
  /\ cpc = "sweep"
  /\ clients' = [k \in Keys |-> IF Stale(clients[k], now) THEN NoClient
                                ELSE clients[k]]
  /\ mu' = Free
  /\ cpc' = "sleep"
  /\ sleepLeft' = SleepInterval
  /\ UNCHANGED <<cfg, now, heap, pc, req, limiter, created, admitted, resp,
                 calls, effects, log, pwChecks, started>>
  /\ UNCHANGED authVars

\* ---- a request worker ----

\* The target of the requests of the limiter's unit tests.
TestRoute == "/"

\* A worker can take a request when it serves none; what it kept of the
\* request it served before is dropped when it takes the next one.
Ready(w) == pc[w] \in {"idle", "done"}

\* The server hands an incoming request to the first ready worker (workers
\* are interchangeable goroutines) with fresh locals and a fresh
\* ResponseWriter; the worker runs up to position `to`.
Dispatch(w, r, to) ==
  /\ Ready(w)
  /\ \A i, j \in DOMAIN WorkerOrder :
       (WorkerOrder[j] = w /\ i < j) => ~Ready(WorkerOrder[i])
  /\ started' = started + 1
  /\ req' = [req EXCEPT ![w] = r]
  /\ pc' = [pc EXCEPT ![w] = to]
  /\ limiter' = [limiter EXCEPT ![w] = NoLimiter]
  /\ created' = [created EXCEPT ![w] = FALSE]
  /\ admitted' = [admitted EXCEPT ![w] = FALSE]
  /\ resp' = [resp EXCEPT ![w] = <<>>]
  /\ calls' = [calls EXCEPT ![w] = 0]
  /\ effects' = [effects EXCEPT ![w] = {}]
  /\ UNCHANGED <<cfg, now, clients, heap, cpc, sleepLeft, log, pwChecks>>
  /\ UNCHANGED authVars

\* (fault) getLimiter entered without taking rl.mu
getLimiterLock_noLock(w) == UNCHANGED mu

\* getLimiter: rl.mu.Lock() returns
getLimiterLock(w) == mu = Free /\ mu' = w

\* The limiter's unit tests: handler.ServeHTTP(w, req) with a request from
\* addr; the middleware splits the address and enters getLimiter.  A call
\* that finds rl.mu taken waits in Lock(): it is counted from the moment
\* Lock() returns.
TestRequest(w, addr) ==
  /\ started < MaxRequests
  /\ started = 0 => addr = FirstAddr
  /\ Dispatch(w, [Request(addr, TestRoute) EXCEPT !.ip = SplitHostPort(addr)],
              "locked")
  /\ getLimiterLock(w)

\* (fault) getLimiter returns without releasing rl.mu
getLimiter_noUnlock(w) ==
  LET ip == req[w].ip
      c  == clients[ip]
  IN
  /\ pc[w] = "locked"
  /\ IF c = NoClient
       THEN /\ heap' = Append(heap, NewLimiter(ip))
            /\ clients' = [clients EXCEPT ![ip] =
                             [limiter |-> Len(heap) + 1, lastSeen |-> now]]
            /\ limiter' = [limiter EXCEPT ![w] = Len(heap) + 1]
            /\ created' = [created EXCEPT ![w] = TRUE]
       ELSE /\ clients' = [clients EXCEPT ![ip].lastSeen = now]
            /\ limiter' = [limiter EXCEPT ![w] = c.limiter]
            /\ UNCHANGED <<heap, created>>
  /\ mu' = w
  /\ pc' = [pc EXCEPT ![w] = "allow"]
  /\ UNCHANGED <<cfg, now, cpc, sleepLeft, req, admitted, resp, calls, effects,
                 log, pwChecks, started>>
  /\ UNCHANGED authVars

\* getLimiter: lookup or create, lastSeen = time.Now(), deferred Unlock
getLimiter(w) ==
  LET ip == req[w].ip
      c  == clients[ip]
  IN
  /\ pc[w] = "locked"
  /\ IF c = NoClient
       THEN /\ heap' = Append(heap, NewLimiter(ip))
            /\ clients' = [clients EXCEPT ![ip] =
                             [limiter |-> Len(heap) + 1, lastSeen |-> now]]
            /\ limiter' = [limiter EXCEPT ![w] = Len(heap) + 1]
            /\ created' = [created EXCEPT ![w] = TRUE]
       ELSE /\ clients' = [clients EXCEPT ![ip].lastSeen = now]
            /\ limiter' = [limiter EXCEPT ![w] = c.limiter]
            /\ UNCHANGED <<heap, created>>
  /\ mu' = Free
  /\ pc' = [pc EXCEPT ![w] = "allow"]
  /\ UNCHANGED <<cfg, now, cpc, sleepLeft, req, admitted, resp, calls, effects,
                 log, pwChecks, started>>
  /\ UNCHANGED authVars

\* ---- the handlers behind the mux ----

\* Request bodies and collaborator results the handlers can meet.
FirstNames == {"", " ", "Al"}
LastNames == {"", "Bo"}
Emails == {"", "   ", "a@x.io", " A@X.io ", "bad"}
Passwords == {"", "        ", "short", "longpassword"}

\* strings.TrimSpace on the strings above
TrimSpace(s) ==
  IF s \in {" ", "   ", "        "} THEN ""
  ELSE IF s = " A@X.io " THEN "A@X.io"
  ELSE s

\* strings.ToLower on the strings above
ToLower(s) == IF s = "A@X.io" THEN "a@x.io" ELSE s

\* security.NormalizeEmail(email)
NormalizeEmail(email) == ToLower(TrimSpace(email))

\* len(s) < 8 on the strings above
ShorterThan8(s) == s \in {"", " ", "   ", "short", "Al", "Bo", "bad", "a@x.io"}

\* security.ValidateEmail: "" when valid, else the error
ValidateEmail(email) ==
  IF NormalizeEmail(email) = "" THEN "email is required"
  ELSE IF NormalizeEmail(email) = "bad" THEN "invalid email format"
  ELSE ""

Outcome(wr, eff) == [write |-> wr, effects |-> eff]

\* (fault) an unknown user is reported as such
LoginOutcome_userNotFound(decodeOk, email, password, findErr, userID, checkErr, genErr, t) ==
  IF ~decodeOk THEN Outcome(WriteJSONError(400, "decode error"), {})
  ELSE IF email = "" THEN Outcome(WriteJSONError(400, "email is required"), {})
  ELSE IF password = ""
    THEN Outcome(WriteJSONError(400, "password is required"), {})
  ELSE IF findErr
    THEN Outcome(WriteJSONError(404, "user not found"), {"lookup"})
  ELSE IF checkErr
    THEN Outcome(WriteJSONError(401, "invalid credentials"),
                 {"lookup", "pwcheck"})
  ELSE IF genErr
    THEN Outcome(WriteJSONError(500, "could not generate token"),
                 {"lookup", "pwcheck", "sign"})
  ELSE Outcome(WriteJSON(200, [token |->
                                 GenerateJWT(jwtService, userID, t).token]),
               {"lookup", "pwcheck", "sign", "token"})

\* (fault) the password is not required before the lookup
LoginOutcome_noRequired(decodeOk, email, password, findErr, userID, checkErr, genErr, t) ==
  IF ~decodeOk THEN Outcome(WriteJSONError(400, "decode error"), {})
  ELSE IF email = "" THEN Outcome(WriteJSONError(400, "email is required"), {})
  ELSE IF findErr
    THEN Outcome(WriteJSONError(401, "invalid credentials"), {"lookup"})
  ELSE IF checkErr
    THEN Outcome(WriteJSONError(401, "invalid credentials"),
                 {"lookup", "pwcheck"})
  ELSE IF genErr
    THEN Outcome(WriteJSONError(500, "could not generate token"),
                 {"lookup", "pwcheck", "sign"})
  ELSE Outcome(WriteJSON(200, [token |->
                                 GenerateJWT(jwtService, userID, t).token]),
               {"lookup", "pwcheck", "sign", "token"})

\* AuthHandler.Login at clock reading t; findErr, checkErr, genErr: whether
\* FindByEmail, CheckPassword and GenerateJWT return an error; userID: the ID
\* of the user FindByEmail returns.
LoginOutcome(decodeOk, email, password, findErr, userID, checkErr, genErr, t) ==
  IF ~decodeOk THEN Outcome(WriteJSONError(400, "decode error"), {})
  ELSE IF email = "" THEN Outcome(WriteJSONError(400, "email is required"), {})
  ELSE IF password = ""
    THEN Outcome(WriteJSONError(400, "password is required"), {})
  ELSE IF findErr
    THEN Outcome(WriteJSONError(401, "invalid credentials"), {"lookup"})
  ELSE IF checkErr
    THEN Outcome(WriteJSONError(401, "invalid credentials"),
                 {"lookup", "pwcheck"})
  ELSE IF genErr
    THEN Outcome(WriteJSONError(500, "could not generate token"),
                 {"lookup", "pwcheck", "sign"})
  ELSE Outcome(WriteJSON(200, [token |->
                                 GenerateJWT(jwtService, userID, t).token]),
               {"lookup", "pwcheck", "sign", "token"})

NoUser == [firstName |-> "", lastName |-> "", email |-> ""]

\* (fault) the user is stored although hashing failed
CreateOutcome_ignoresHashErr(firstName, lastName, email, hashErr, repoErr) ==
  LET user == [firstName |-> TrimSpace(firstName),
               lastName |-> TrimSpace(lastName),
               email |-> NormalizeEmail(email)]
  IN
  IF TrimSpace(firstName) = ""
    THEN [kind |-> "invalid", msg |-> "invalid entity: firstName is required",
          effects |-> {}, user |-> NoUser]
  ELSE IF TrimSpace(lastName) = ""
    THEN [kind |-> "invalid", msg |-> "invalid entity: lastName is required",
          effects |-> {}, user |-> NoUser]
  ELSE IF ValidateEmail(NormalizeEmail(email)) # ""
    THEN [kind |-> "error", msg |-> ValidateEmail(NormalizeEmail(email)),
          effects |-> {}, user |-> NoUser]
  ELSE IF repoErr
    THEN [kind |-> "error", msg |-> "repository error",
          effects |-> {"hash", "insert"}, user |-> NoUser]
  ELSE [kind |-> "ok", msg |-> "", effects |-> {"hash", "insert"},
        user |-> user]

\* UserService.Create; hashErr, repoErr: whether HashPassword and
\* repo.Create return an error.  kind "invalid" is *InvalidEntityError; user
\* is the *domain.User returned (NoUser is nil).
CreateOutcome(firstName, lastName, email, hashErr, repoErr) ==
  LET user == [firstName |-> TrimSpace(firstName),
               lastName |-> TrimSpace(lastName),
               email |-> NormalizeEmail(email)]
  IN
  IF TrimSpace(firstName) = ""
    THEN [kind |-> "invalid", msg |-> "invalid entity: firstName is required",
          effects |-> {}, user |-> NoUser]
  ELSE IF TrimSpace(lastName) = ""
    THEN [kind |-> "invalid", msg |-> "invalid entity: lastName is required",
          effects |-> {}, user |-> NoUser]
  ELSE IF ValidateEmail(NormalizeEmail(email)) # ""
    THEN [kind |-> "error", msg |-> ValidateEmail(NormalizeEmail(email)),
          effects |-> {}, user |-> NoUser]
  ELSE IF hashErr
    THEN [kind |-> "error", msg |-> "hash error", effects |-> {"hash"},
          user |-> NoUser]
  ELSE IF repoErr
    THEN [kind |-> "error", msg |-> "repository error",
          effects |-> {"hash", "insert"}, user |-> NoUser]
  ELSE [kind |-> "ok", msg |-> "", effects |-> {"hash", "insert"},
        user |-> user]

\* UserHandler.PostUser
PostUserOutcome(decodeOk, firstName, lastName, email, password, hashErr, repoErr) ==
  LET c == CreateOutcome(firstName, lastName, email, hashErr, repoErr) IN
  IF ~decodeOk THEN Outcome(WriteJSONError(400, "decode error"), {})
  ELSE IF firstName = ""
    THEN Outcome(WriteJSONError(400, "firstName is required"), {})
  ELSE IF lastName = ""
    THEN Outcome(WriteJSONError(400, "lastName is required"), {})
  ELSE IF email = "" THEN Outcome(WriteJSONError(400, "email is required"), {})
  ELSE IF TrimSpace(password) = ""
    THEN Outcome(WriteJSONError(400, "password is required"), {})
  ELSE IF ShorterThan8(password)
    THEN Outcome(WriteJSONError(400,
                   "password must be at least 8 characters"), {})
  ELSE IF c.kind = "invalid" THEN Outcome(WriteJSONError(400, c.msg), c.effects)
  ELSE IF c.kind = "error" THEN Outcome(WriteJSONError(500, c.msg), c.effects)
  ELSE Outcome(WriteJSON(201, c.user), c.effects)

\* A handler has run for the request r of worker w and returned: its
\* response and what it did are recorded, the request is complete.
Served(w, r, o) ==
  /\ calls' = [calls EXCEPT ![w] = @ + 1]
  /\ resp' = [resp EXCEPT ![w] = Append(@, ByHandler(o.write))]
  /\ effects' = [effects EXCEPT ![w] = @ \cup o.effects]
  /\ pwChecks' = [pwChecks EXCEPT ![r.from] =
                    IF "pwcheck" \in o.effects THEN @ + 1 ELSE @]
  /\ pc' = [pc EXCEPT ![w] = "done"]

\* what Login can do, over the request bodies and collaborator results
LoginOutcomes(t) ==
  {LoginOutcome(decodeOk, email, password, findErr, userID, checkErr, genErr, t) :
     decodeOk \in BOOLEAN, email \in {"", "a@x.io"},
     password \in {"", "longpassword"},
     findErr \in BOOLEAN, userID \in UserIDs,
     checkErr \in BOOLEAN, genErr \in BOOLEAN}

\* AuthHandler.Login serving request r
Login(w, r) ==
  /\ r.route = "login"
  /\ \E o \in LoginOutcomes(Ticks(now)) : Served(w, r, o)

\* what PostUser can do, over the request bodies and collaborator results
PostUserOutcomes ==
  {PostUserOutcome(decodeOk, firstName, lastName, email, password,
                   hashErr, repoErr) :
     decodeOk \in BOOLEAN, firstName \in FirstNames, lastName \in LastNames,
     email \in Emails, password \in Passwords,
     hashErr \in BOOLEAN, repoErr \in BOOLEAN}

\* UserHandler.PostUser serving request r
PostUser(w, r) ==
  /\ r.route = "users"
  /\ \E o \in PostUserOutcomes : Served(w, r, o)

\* HealthHandler.Check on GET /api/v1/health (not behind the limiter)
HealthCheck(w, r) ==
  /\ r.route = "health"
  /\ \E dbOk \in BOOLEAN :
       Served(w, r, Outcome(IF dbOk
                           THEN WriteJSON(200, [server |-> "ok", db |-> "ok"])
                           ELSE WriteJSON(503, [db |-> "ko"]), {}))

\* okHandler of the limiter's unit tests serving request r
okHandler(w, r) ==
  /\ r.route = TestRoute
  /\ Served(w, r, Outcome([status |-> 200, ctype |-> "", body |-> ""], {}))

\* The handler registered for r's route runs and returns.
ServeHTTP(w, r) ==
  \/ Login(w, r)
  \/ PostUser(w, r)
  \/ HealthCheck(w, r)
  \/ okHandler(w, r)

\* mux routes a request either through rl.Middleware, where it enters
\* getLimiter, or straight to its handler.
StartRequest(w, addr, route) ==
  /\ started < MaxHTTPRequests
  /\ started = 0 => addr = FirstAddr
  /\ LET r == [Request(addr, route) EXCEPT !.ip = SplitHostPort(addr)] IN
       IF Guarded(route)
         THEN Dispatch(w, r, "locked") /\ getLimiterLock(w)
         ELSE Dispatch(w, r, "serve") /\ UNCHANGED mu

\* The handler of a route registered without the limiter runs.
Unguarded(w) ==
  /\ pc[w] = "serve"
  /\ ServeHTTP(w, req[w])
  /\ UNCHANGED <<cfg, now, clients, heap, mu, cpc, sleepLeft, req, limiter,
                 created, admitted, log, started>>
  /\ UNCHANGED authVars

\* RateLimitMiddleware after getLimiter: limiter.Allow(), then either the
\* 429 response and return, or next.ServeHTTP(w, r).
RateLimitMiddleware(w) ==
  LET i == limiter[w]
      a == Allow(heap[i], now)
  IN
  /\ pc[w] = "allow"
  /\ heap' = [heap EXCEPT ![i] = a.lim]
  /\ log' = Append(log, [from |-> req[w].from,
                         t |-> now, ok |-> a.ok, lim |-> i,
                         avail |-> advance(heap[i], now)])
  /\ admitted' = [admitted EXCEPT ![w] = a.ok]
  /\ IF a.ok
       THEN ServeHTTP(w, req[w])
       ELSE /\ resp' = [resp EXCEPT ![w] = Append(@, ByLimiter(
                          WriteJSONError(429, "too many requests")))]
            /\ pc' = [pc EXCEPT ![w] = "done"]
            /\ UNCHANGED <<calls, effects, pwChecks>>
  /\ UNCHANGED <<cfg, now, clients, mu, cpc, sleepLeft, req, limiter, created,
                 started>>
  /\ UNCHANGED authVars

\* The limiter in front of okHandler, under concurrent requests.
Next ==
  \/ Tick
  \/ cleanupLock
  \/ cleanup
  \/ \E w \in Workers, addr \in RemoteAddrs : TestRequest(w, addr)
  \/ \E w \in Workers : getLimiter(w)
  \/ \E w \in Workers : RateLimitMiddleware(w)

Spec == Init /\ [][Next]_vars

\* The routes of RegisterV1Routes with their handlers, one request at a time.
NextHTTP ==
  \/ Tick
  \/ cleanupLock
  \/ cleanup
  \/ \E addr \in RemoteAddrs, route \in Routes : StartRequest(FirstWorker, addr, route)
  \/ getLimiter(FirstWorker)
  \/ RateLimitMiddleware(FirstWorker)
  \/ Unguarded(FirstWorker)

SpecHTTP == Init /\ [][NextHTTP]_vars

\* ---- the limiter under fair scheduling ----

\* the cleanup goroutine can run: its Sleep has returned or it is sweeping
SweeperRunnable == cpc = "sweep" \/ (cpc = "sleep" /\ sleepLeft = 0)

\* worker w is in the middleware: in getLimiter or about to call Allow
WorkerRunnable(w) == pc[w] \in {"locked", "allow"}

\* The passage of time when every runnable goroutine is scheduled before the
\* clock moves on: the cleanup goroutine whose Sleep has returned takes
\* rl.mu and sweeps within the minute, and a request that has entered the
\* middleware gets its decision within the minute.
TickScheduled ==
  /\ ~SweeperRunnable
  /\ \A w \in Workers : ~WorkerRunnable(w)
  /\ now < MaxSweepTime
  /\ now' = now + 1
  /\ sleepLeft' = IF sleepLeft > 0 THEN sleepLeft - 1 ELSE 0
  /\ UNCHANGED <<cfg, clients, heap, mu, cpc, pc, req, limiter, created,
                 admitted, resp, calls, effects, log, pwChecks, started>>
  /\ UNCHANGED authVars

\* handler.ServeHTTP(w, req) with a request from addr, as in TestRequest
FairRequest(w, addr) ==
  /\ started < MaxFairRequests
  /\ started = 0 => addr = FirstAddr
  /\ Dispatch(w, [Request(addr, TestRoute) EXCEPT !.ip = SplitHostPort(addr)],
              "locked")
  /\ getLimiterLock(w)

NextFair ==
  \/ TickScheduled
  \/ cleanupLock
  \/ cleanup
  \/ \E w \in Workers, addr \in RemoteAddrs : FairRequest(w, addr)
  \/ \E w \in Workers : getLimiter(w)
  \/ \E w \in Workers : RateLimitMiddleware(w)

\* The Go scheduler runs every runnable goroutine, and sync.Mutex hands the
\* lock to a waiter once it is free: the clock, the cleanup goroutine and
\* every worker that has started a request keep taking steps.
Fairness ==
  /\ WF_vars(TickScheduled)
  /\ WF_vars(cleanupLock)
  /\ WF_vars(cleanup)
  /\ \A w \in Workers : WF_vars(getLimiter(w))
  /\ \A w \in Workers : WF_vars(RateLimitMiddleware(w))

SpecFair == Init /\ [][NextFair]_vars /\ Fairness

\* ---- the limiter as main() constructs it ----

\* middleware.NewRateLimiter(1, 5): one token per second, burst 5
MainConfig == [num |-> 60, den |-> 1, burst |-> 5]

InitMain == InitAuth({testSecret}) /\ cfg = MainConfig /\ InitRegistry

\* a request to the server of main(), routed by mux as in StartRequest
MainRequest(w, addr, route) ==
  /\ started < MaxBurstRequests
  /\ started = 0 => addr = FirstAddr
  /\ LET r == [Request(addr, route) EXCEPT !.ip = SplitHostPort(addr)] IN
       IF Guarded(route)
         THEN Dispatch(w, r, "locked") /\ getLimiterLock(w)
         ELSE Dispatch(w, r, "serve") /\ UNCHANGED mu

\* The routes of RegisterV1Routes behind the one limiter of main(), one
\* request at a time, the requests following each other at once.
NextMain ==
  \/ \E addr \in RemoteAddrs, route \in Routes : MainRequest(FirstWorker, addr, route)
  \/ getLimiter(FirstWorker)
  \/ RateLimitMiddleware(FirstWorker)
  \/ Unguarded(FirstWorker)

SpecMain == InitMain /\ [][NextMain]_vars

\* ---- the limiter and the remote addresses of its requests ----

\* remote addresses without a port: net.SplitHostPort fails on them
BareAddrs == {<<"A">>, <<"B">>}

\* r.RemoteAddr as the string the server sets
RemoteAddr(addr) ==
  IF Len(addr) = 2 THEN addr[1] \o ":" \o addr[2] ELSE addr[1]

\* handler.ServeHTTP(w, req) with req.RemoteAddr = addr, as in TestRequest;
\* the request is identified by its whole remote address
KeyRequest(w, addr) ==
  /\ started < MaxKeyRequests
  /\ Dispatch(w, [from |-> RemoteAddr(addr), ip |-> SplitHostPort(addr),
                  route |-> TestRoute], "locked")
  /\ getLimiterLock(w)

\* The limiter in front of okHandler, one request at a time, the requests
\* following each other at once.
NextKeys ==
  \/ \E addr \in RemoteAddrs \cup BareAddrs : KeyRequest(FirstWorker, addr)
  \/ getLimiter(FirstWorker)
  \/ RateLimitMiddleware(FirstWorker)

SpecKeys == Init /\ [][NextKeys]_vars

\* ---- the token service, the auth gate and Login, called directly ----

\* A service constructed with a secret other than jwtService's.
otherService ==
  NewJWTService(CHOOSE secret \in Secrets : secret # jwtService.key)

\* The token strings a client can present: the issued ones, an issued one
\* with characters appended or with its payload rewritten under the old
\* signature, tokens signed with another secret (whatever their claims), the
\* empty string, and a string that is no token.
Presented ==
  {p.token : p \in pool}
    \cup {[p.token EXCEPT !.tail = "tampered"] : p \in pool}
    \cup {[p.token EXCEPT !.claims.user_id = u] : p \in pool, u \in UserIDs}
    \cup {[p.token EXCEPT !.claims.exp = @ + TokenTTL] : p \in pool}
    \cup {GenerateJWT(otherService, u, clock).token : u \in UserIDs}
    \cup {SignedString([user_id |-> u, exp |-> Unix(clock) - 3600],
                       otherService.key) : u \in UserIDs}
    \cup {EmptyToken, GarbageToken}

\* The Authorization headers a request can carry.
Headers ==
  {<<>>}
    \cup {<<Bearer, tk>> : tk \in Presented}
    \cup {<<scheme, p.token>> : scheme \in {"Basic ", "bearer "}, p \in pool}

\* UserHandler.GetMe with the request context ctx; find: what FindById
\* returns.
GetMe(ctx, find) ==
  LET u == GetUserIDFromContext(ctx) IN
  IF ~u[2] THEN WriteJSONError(401, "user not authenticated")
  ELSE IF find = "invalid" THEN WriteJSONError(400, "invalid entity")
  ELSE IF find = "notfound" THEN WriteJSONError(404, "entity not found")
  ELSE IF find = "error" THEN WriteJSONError(500, "repository error")
  ELSE WriteJSON(200, [id |-> u[1]])

FindResults == {"ok", "invalid", "notfound", "error"}

\* The clock moves on: by one tick, or by one tick less than a token's
\* lifetime.  The clock is followed through its first MaxClockSlack ticks
\* and from one tick before a lifetime has passed to MaxClockSlack ticks
\* after it.  What the last call returned is no longer current.
Lifetime == TokenTTL * TicksPerSecond

Jumps == {1, Lifetime - 1}

Advance(d) ==
  /\ \/ clock + d <= MaxClockSlack
     \/ clock + d >= Lifetime - 1 /\ clock + d <= Lifetime + MaxClockSlack
  /\ clock' = clock + d
  /\ seen' = NoCall
  /\ UNCHANGED <<jwtService, pool, hashes, rlVars>>

\* jwtService.GenerateJWT(userID)
Issue(userID) ==
  LET g == GenerateJWT(jwtService, userID, clock) IN
  /\ Cardinality(pool) < MaxTokens
  /\ pool' = pool \cup {[token |-> g.token, uid |-> userID, at |-> clock]}
  /\ seen' = [op |-> "GenerateJWT", in |-> userID, out |-> g]
  /\ UNCHANGED <<jwtService, clock, hashes, rlVars>>

\* jwtService.ValidateJWT(tokenStr)
Verify(tokenStr) ==
  /\ seen' = [op |-> "ValidateJWT", in |-> tokenStr,
              out |-> ValidateJWT(jwtService, tokenStr, clock)]
  /\ UNCHANGED <<jwtService, clock, pool, hashes, rlVars>>

\* A request with this Authorization header to GET /api/v1/users/me behind
\* AuthMiddleware: the gate, then (if the gate calls it) GetMe with the
\* request the gate passes on.  find is consulted only if GetMe runs.
AuthRequest(authHeader, find) ==
  LET g == AuthMiddleware(jwtService, authHeader, clock) IN
  /\ g.calls = 0 => find = "ok"
  /\ seen' = [op |-> "AuthMiddleware", in |-> authHeader,
              out |-> [gate |-> g,
                       resp |-> [i \in DOMAIN g.resp |-> ByGate(g.resp[i])]
                                  \o (IF g.calls > 0
                                        THEN <<ByHandler(GetMe(g.ctx, find))>>
                                        ELSE <<>>),
                       user |-> GetUserIDFromContext(g.ctx)]]
  /\ UNCHANGED <<jwtService, clock, pool, hashes, rlVars>>

\* handler.GetMe(w, req) called with a request that passed no gate
DirectRequest(find) ==
  /\ seen' = [op |-> "GetMe", in |-> Background,
              out |-> [resp |-> <<ByHandler(GetMe(Background, find))>>,
                       user |-> GetUserIDFromContext(Background)]]
  /\ UNCHANGED <<jwtService, clock, pool, hashes, rlVars>>

\* The inputs of a Login call: whether the body decodes, its two fields,
\* and what FindByEmail, CheckPassword and the signing would answer.  An
\* undecodable body has no fields; the user, the password check and the
\* signing that are never reached are left at their zero values.
DefaultUserID == CHOOSE u \in UserIDs : \A v \in UserIDs : u <= v

LoginInputs ==
  { i \in [decodeOk : BOOLEAN, email : {"", "a@x.io"},
           password : {"", "longpassword"}, findErr : BOOLEAN,
           userID : UserIDs, checkErr : BOOLEAN, genErr : BOOLEAN] :
      LET body == i.decodeOk /\ i.email # "" /\ i.password # ""
          found == body /\ ~i.findErr
          checked == found /\ ~i.checkErr
      IN  /\ ~i.decodeOk => i.email = "" /\ i.password = ""
          /\ ~found => i.userID = DefaultUserID /\ ~i.checkErr
          /\ ~checked => ~i.genErr }

\* handler.Login(w, req) called with these inputs; the token of a
\* successful login is in the client's hands from then on.
LoginCall(i) ==
  LET o == LoginOutcome(i.decodeOk, i.email, i.password, i.findErr, i.userID,
                        i.checkErr, i.genErr, clock)
      issued == IF "token" \in o.effects
                  THEN {[token |-> o.write.body.token, uid |-> i.userID,
                         at |-> clock]}
                  ELSE {}
  IN
  /\ Cardinality(pool \cup issued) <= MaxTokens
  /\ pool' = pool \cup issued
  /\ seen' = [op |-> "Login", in |-> i, out |-> o]
  /\ UNCHANGED <<jwtService, clock, hashes, rlVars>>

NextAuth ==
  \/ \E d \in Jumps : Advance(d)
  \/ \E userID \in UserIDs : Issue(userID)
  \/ \E tokenStr \in Presented : Verify(tokenStr)
  \/ \E authHeader \in Headers, find \in FindResults :
       AuthRequest(authHeader, find)
  \/ \E find \in FindResults : DirectRequest(find)
  \/ \E i \in LoginInputs : LoginCall(i)

InitTokens == InitAuth(Secrets) /\ InitLimiter

SpecAuth == InitTokens /\ [][NextAuth]_vars

\* ---- password hashing (pkg/security), called directly ----

\* A string value: a plaintext is the string itself (salt 0); the encoded
\* hash of a plaintext carries the salt it was computed with and a digest
\* that binds salt and plaintext.
Str(text) == [salt |-> 0, text |-> text]
PlainTexts == {"", "correctpassword", "wrongpassword"}
Salts == 1..MaxHashes

\* (fault) the password is stored as it is
HashPassword_plain(password, salt) == [hash |-> Str(password), err |-> ""]

\* (fault) a constant salt
HashPassword_noSalt(password, salt) ==
  [hash |-> [salt |-> 1, text |-> password], err |-> ""]

\* security.HashPassword(password), salt being what the random source gives
HashPassword(password, salt) ==
  [hash |-> [salt |-> salt, text |-> password], err |-> ""]

\* (fault) the empty password matches every hash
CheckPassword_emptyMatches(password, hash) ==
  IF password = "" \/ (hash.salt # 0 /\ hash.text = password)
    THEN "" ELSE "mismatch"

\* security.CheckPassword(password, hash): "" is nil
CheckPassword(password, hash) ==
  IF hash.salt # 0 /\ hash.text = password THEN "" ELSE "mismatch"

\* the salts of the hashes computed so far; the random source does not
\* repeat a salt
Used == {hashes[i].hash.salt : i \in DOMAIN hashes}

\* security.HashPassword(password)
HashCall(password, salt) ==
  LET h == HashPassword(password, salt) IN
  /\ Len(hashes) < MaxHashes
  /\ salt \notin Used
  /\ hashes' = Append(hashes, [password |-> password, hash |-> h.hash])
  /\ seen' = [op |-> "HashPassword", in |-> password, out |-> h]
  /\ UNCHANGED <<jwtService, clock, pool, rlVars>>

\* security.CheckPassword(password, hash) with a hash computed before
CheckCall(password, i) ==
  /\ seen' = [op |-> "CheckPassword",
              in |-> [password |-> password, hash |-> hashes[i].hash],
              out |-> [err |-> CheckPassword(password, hashes[i].hash)]]
  /\ UNCHANGED <<jwtService, clock, pool, hashes, rlVars>>

NextHash ==
  \/ \E password \in PlainTexts, salt \in Salts : HashCall(password, salt)
  \/ \E password \in PlainTexts, i \in DOMAIN hashes : CheckCall(password, i)

SpecHash == Init /\ [][NextHash]_vars

\* ---- user creation (UserService.Create, PostUser), called directly ----

\* the arguments of Create with what HashPassword and repo.Create answer
CreateInputs ==
  [firstName : FirstNames, lastName : LastNames, email : Emails,
   hashErr : BOOLEAN, repoErr : BOOLEAN]

\* a request body of PostUser (or one that does not decode) with the same
PostUserInputs ==
  [decodeOk : BOOLEAN, firstName : FirstNames, lastName : LastNames,
   email : Emails, password : Passwords, hashErr : BOOLEAN, repoErr : BOOLEAN]

\* service.Create(ctx, firstName, lastName, email, password)
CreateCall(i) ==
  /\ seen' = [op |-> "Create", in |-> i,
              out |-> CreateOutcome(i.firstName, i.lastName, i.email,
                                    i.hashErr, i.repoErr)]
  /\ UNCHANGED <<jwtService, clock, pool, hashes, rlVars>>

\* handler.PostUser(w, req)
PostUserCall(i) ==
  /\ seen' = [op |-> "PostUser", in |-> i,
              out |-> PostUserOutcome(i.decodeOk, i.firstName, i.lastName,
                                      i.email, i.password, i.hashErr,
                                      i.repoErr)]
  /\ UNCHANGED <<jwtService, clock, pool, hashes, rlVars>>

NextCreate ==
  \/ \E i \in CreateInputs : CreateCall(i)
  \/ \E i \in PostUserInputs : PostUserCall(i)

SpecCreate == Init /\ [][NextCreate]_vars

TypeOK ==
  /\ cfg \in Configs \cup {MainConfig}
  /\ now \in Nat
  /\ mu \in Workers \cup {Cleaner, Free}
  /\ started \in Nat
  /\ Len(log) <= started
  /\ jwtService.key \in Secrets
  /\ clock \in 0..(Lifetime + MaxClockSlack)
  /\ Cardinality(pool) <= MaxTokens
  /\ seen.op \in {"none", "GenerateJWT", "ValidateJWT", "AuthMiddleware",
                  "GetMe", "Login", "HashPassword", "CheckPassword",
                  "Create", "PostUser"}
  /\ Len(hashes) <= MaxHashes


\* ---- vocabulary of the properties ----

Clients == {Client(a) : a \in RemoteAddrs}

\* the decisions taken for client c / on limiter object l, as indices of log
EntriesOf(c) == {i \in DOMAIN log : log[i].from = c}
EntriesOn(l) == {i \in DOMAIN log : log[i].lim = l}
FirstOf(S) == CHOOSE i \in S : \A j \in S : i <= j
Rank(S, i) == Cardinality({j \in S : j <= i})
AdmittedIn(S, i, j) == Cardinality({k \in S : i <= k /\ k <= j /\ log[k].ok})

\* the limiter objects created for key k, and whether one was removed
LimitersOf(k) == {l \in DOMAIN heap : heap[l].key = k}
Registered(l) == clients[heap[l].key].limiter = l
NoRemovalOf(k) == \A l \in LimitersOf(k) : Registered(l)

TooMany == <<ByLimiter(WriteJSONError(429, "too many requests"))>>

\* C1: a client whose entry no sweep has removed: of the decisions taken at
\* the instant of its first decision, exactly the first burst ones are
\* admitted (the handler is reached) and the next ones are rejected with 429.
C1_BurstThenReject ==
  /\ \A c \in Clients :
       LET E == EntriesOf(c) IN
       (E # {} /\ NoRemovalOf(c)) =>
         LET t0 == log[FirstOf(E)].t IN
         \A i \in E : log[i].t = t0 =>
                        (log[i].ok <=> Rank(E, i) <= cfg.burst)
  /\ \A w \in Workers :
       pc[w] = "done" =>
         IF admitted[w] THEN calls[w] = 1
         ELSE calls[w] = 0 /\ resp[w][1].write.status = 429

C1_Witness ==
  \E c \in Clients :
    LET E == EntriesOf(c) IN
    /\ E # {} /\ NoRemovalOf(c)
    /\ \E i \in E : /\ log[i].t = log[FirstOf(E)].t
                    /\ Rank(E, i) = cfg.burst + 1
                    /\ ~log[i].ok
    /\ \E w \in Workers : pc[w] = "done" /\ ~admitted[w] /\ req[w].from = c

\* C2 as stated: on a bucket that is full at some decision, at most burst
\* decisions are admitted within any interval shorter than burst/rate.
C2_AtMostCapacity ==
  \A l \in DOMAIN heap : \A i, j \in EntriesOn(l) :
    (i <= j /\ log[i].avail >= Cap
            /\ (log[j].t - log[i].t) * cfg.num < Cap)
      => AdmittedIn(EntriesOn(l), i, j) <= cfg.burst

\* C2 amended: on a bucket that is full at some decision, at most
\* burst + rate * L decisions are admitted within an interval of length L,
\* hence fewer than 2 * burst when L is shorter than burst/rate.
C2_AtMostCapacityPlusRefill ==
  \A l \in DOMAIN heap :
    LET E == EntriesOn(l) IN
    \A i \in E :
      log[i].avail >= Cap =>
        \A j \in E :
          i <= j =>
            LET n == AdmittedIn(E, i, j) IN
            /\ (n - cfg.burst) * cfg.den <= cfg.num * (log[j].t - log[i].t)
            /\ (log[j].t - log[i].t) * cfg.num < Cap => n < 2 * cfg.burst

C2_Witness ==
  \E l \in DOMAIN heap : \E i, j \in EntriesOn(l) :
    /\ i < j /\ log[i].avail = Cap
    /\ log[i].t < log[j].t
    /\ (log[j].t - log[i].t) * cfg.num < Cap
    /\ AdmittedIn(EntriesOn(l), i, j) = cfg.burst + 1

\* The registry entry and the bucket of key k.
Bucket(k) ==
  IF clients[k] = NoClient THEN <<>>
  ELSE <<clients[k], heap[clients[k].limiter]>>

StepOf(w) == pc'[w] # pc[w]
ServedClient(w) == IF Ready(w) THEN req'[w].from ELSE req[w].from

\* C3: a step of a request of client a changes neither the registry entry
\* nor any limiter object of another client b; and the first decision for
\* every client is an admission, whatever the other clients did before.
C3_Independence ==
  /\ [][\A w \in Workers : StepOf(w) =>
          \A b \in Clients \ {ServedClient(w)} :
            /\ Bucket(b)' = Bucket(b)
            /\ \A l \in LimitersOf(b) : heap'[l] = heap[l]]_vars
  /\ [](\A b \in Clients :
          EntriesOf(b) # {} => log[FirstOf(EntriesOf(b))].ok)

C3_Witness ==
  \E i, j \in DOMAIN log :
    /\ i < j
    /\ ~log[i].ok
    /\ log[j].from # log[i].from
    /\ j = FirstOf(EntriesOf(log[j].from))
    /\ log[j].ok

\* C4: for every client and every window of decisions, the number admitted
\* is at most burst + rate * (length of the window).
C4_RateBound ==
  \A c \in Clients : \A i, j \in EntriesOf(c) :
    i <= j =>
      (AdmittedIn(EntriesOf(c), i, j) - cfg.burst) * cfg.den
        <= cfg.num * (log[j].t - log[i].t)

\* C5: every bucket in the registry holds between 0 and burst tokens, both as
\* stored and as available now.
C5_TokensInRange ==
  \A k \in Keys :
    clients[k] # NoClient =>
      LET b == heap[clients[k].limiter] IN
      /\ 0 <= b.tokens /\ b.tokens <= Cap
      /\ 0 <= advance(b, now) /\ advance(b, now) <= Cap

C5_Witness ==
  \E k \in Keys :
    /\ clients[k] # NoClient
    /\ heap[clients[k].limiter].tokens = 0
    /\ \E i \in EntriesOn(clients[k].limiter) : ~log[i].ok

\* the decision taken by this step, if it takes one on limiter l
DecidesOn(l) == Len(log') = Len(log) + 1 /\ log'[Len(log')].lim = l

\* C6: an admission lowers the tokens available on its bucket by exactly one;
\* a denial, and every other step (sweep, other client's request, the
\* handler's outcome), leaves what is available on every bucket unchanged.
C6_OnlyAdmissionConsumes ==
  [][\A l \in DOMAIN heap :
       IF DecidesOn(l) /\ log'[Len(log')].ok
         THEN advance(heap'[l], now) = advance(heap[l], now) - One
         ELSE IF now' = now
                THEN advance(heap'[l], now) = advance(heap[l], now)
                ELSE heap'[l] = heap[l]]_vars

C6_Witness ==
  \E w \in Workers :
    /\ pc[w] = "done" /\ admitted[w]
    /\ resp[w][1].by = "handler" /\ resp[w][1].write.status = 401
    /\ log[Len(log)].lim = limiter[w]
    /\ heap[limiter[w]].tokens = log[Len(log)].avail - One

\* C7: a finished request on a limited route was either denied: the response
\* is exactly the limiter's 429 {"message": "too many requests"} and the
\* handler was not called; or admitted: the handler was called exactly once
\* and nothing in the response was written by the limiter.
C7_RejectOrServe ==
  \A w \in Workers :
    (pc[w] = "done" /\ req[w].route \in {"users", "login"}) =>
      IF admitted[w]
        THEN /\ calls[w] = 1
             /\ \A n \in DOMAIN resp[w] : resp[w][n].by = "handler"
        ELSE /\ calls[w] = 0
             /\ resp[w] = <<[by |-> "limiter",
                             write |-> [status |-> 429,
                                        ctype |-> "application/json",
                                        body |-> [message |->
                                                    "too many requests"]]]>>

C7_Witness ==
  \E w \in Workers :
    /\ pc[w] = "done" /\ req[w].route = "login"
    /\ ~admitted[w] /\ calls[w] = 0 /\ Len(resp[w]) = 1

\* C8: a request to POST users or POST login that the limiter denied has
\* caused no lookup, password check, hash, insert or token; and Login has
\* verified at most as many passwords for a client as the limiter admitted
\* requests of that client.
C8_LimiterBeforeHandler ==
  /\ \A w \in Workers :
       (pc[w] = "done" /\ req[w].route \in {"users", "login"}
                       /\ ~admitted[w]) => effects[w] = {}
  /\ \A w \in Workers :
       (req[w].route \in {"users", "login"} /\ pc[w] # "done")
          => effects[w] = {} /\ calls[w] = 0
  /\ \A c \in Clients :
       pwChecks[c] <= Cardinality({i \in EntriesOf(c) : log[i].ok})

C8_Witness ==
  \E w \in Workers :
    /\ pc[w] = "done" /\ req[w].route = "login" /\ ~admitted[w]
    /\ pwChecks[req[w].from] >= 1

\* Steps that write the registry, and the step that refills and consumes.
RegistryWrite == clients' # clients \/ Len(heap') # Len(heap)
HeldBy(w) == mu = w
AllowBy(w) == pc[w] = "allow" /\ pc'[w] # "allow"

\* C9 as stated: the registry writes and the refill-and-consume of a bucket
\* are all executed by a party that holds rl.mu.
C9_EverythingUnderLock ==
  [][/\ RegistryWrite => mu # Free
     /\ \A w \in Workers : AllowBy(w) => HeldBy(w)]_vars

\* C9 amended: lookup-or-create, the lastSeen update and the sweep's deletes
\* are executed by the holder of rl.mu, which releases it in the same step;
\* the refill-and-consume of a bucket is executed by a worker that does not
\* hold rl.mu.
C9_RegistryUnderLock ==
  [][/\ RegistryWrite =>
          /\ mu' = Free
          /\ \/ mu = Cleaner /\ cpc = "sweep" /\ cpc' = "sleep"
             \/ \E w \in Workers : HeldBy(w) /\ pc[w] = "locked"
                                             /\ pc'[w] = "allow"
     /\ \A w \in Workers : AllowBy(w) => ~HeldBy(w)]_vars

C9_Witness ==
  /\ mu = Cleaner
  /\ \E w \in Workers : pc[w] = "done" /\ admitted[w]
  /\ \E v \in Workers : pc[v] = "allow"

\* the request of w created a bucket for a key whose bucket had been removed
ReplacedBucket(w) ==
  created[w] /\ \E l \in LimitersOf(req[w].ip) : l < limiter[w]

\* C10 as stated: the request that gets the fresh bucket after a removal is
\* admitted.
C10_CreatorAdmitted ==
  \A w \in Workers : (pc[w] = "done" /\ ReplacedBucket(w)) => admitted[w]

\* C10 amended: a bucket created after a removal is full and has the zero
\* timestamp until the first decision taken on it, and that first decision
\* finds burst tokens available and is an admission.
C10_FreshBucketFull ==
  \A l \in DOMAIN heap :
    LET E == EntriesOn(l) IN
    IF E = {}
      THEN heap[l].tokens = Cap /\ heap[l].last = 0
      ELSE LET f == FirstOf(E) IN
           log[f].avail = Cap /\ log[f].ok

C10_Witness ==
  \E l, m \in DOMAIN heap :
    /\ l < m /\ heap[l].key = heap[m].key
    /\ heap[l].tokens < Cap
    /\ EntriesOn(m) # {}
    /\ log[FirstOf(EntriesOn(m))].ok
    /\ \E w \in Workers : pc[w] = "done" /\ ReplacedBucket(w) /\ ~admitted[w]

\* ---- vocabulary of the properties of the token service and the gate ----

\* the last call was a request through the gate / was let through by it
GateCall == seen.op = "AuthMiddleware"
GatePassed == GateCall /\ seen.out.gate.calls > 0

\* the header has the Bearer shape and the service accepts what follows
Accepted(authHeader) ==
  /\ authHeader # <<>>
  /\ Len(authHeader) = 2
  /\ authHeader[1] = Bearer
  /\ ValidateJWT(jwtService, authHeader[2], clock).err = ""

Refused(message) == <<ByGate(WriteJSONError(401, message))>>

\* C12: a request through the gate whose header is absent, or does not start
\* with "Bearer ", or carries a token the service does not accept, gets
\* exactly one response, written by the gate: HTTP 401 with the JSON body
\* {"message": "missing token"}, {"message": "invalid token format"} or
\* {"message": "invalid token"} respectively; the downstream handler is not
\* called and writes nothing.
C12_GateFailureTerminal ==
  (GateCall /\ ~Accepted(seen.in)) =>
    /\ seen.out.gate.calls = 0
    /\ Len(seen.out.resp) = 1
    /\ seen.out.resp[1].write.ctype = "application/json"
    /\ seen.out.resp =
         IF seen.in = <<>> THEN Refused("missing token")
         ELSE IF seen.in[1] # Bearer THEN Refused("invalid token format")
         ELSE Refused("invalid token")
    /\ seen.out.user[2] = FALSE

\* a token that would be accepted, sent under another scheme, is refused
C12_Witness ==
  /\ GateCall
  /\ seen.in # <<>>
  /\ seen.in[1] = "Basic "
  /\ ValidateJWT(jwtService, seen.in[2], clock).err = ""
  /\ seen.out.resp = Refused("invalid token format")

\* the reason for which the service refuses this token string ("" if none)
Reason(tokenStr) == ValidateJWT(jwtService, tokenStr, clock).err

\* the last call was a request with a Bearer header whose token is refused
BearerRefused ==
  GateCall /\ seen.in # <<>> /\ seen.in[1] = Bearer /\ Reason(seen.in[2]) # ""

\* C13: the response to a request with a Bearer header whose token fails
\* verification is HTTP 401 {"message": "invalid token"} and nothing else,
\* and it is the response the gate gives to every other Bearer request whose
\* token fails verification, whatever the reason of either failure.
C13_UniformInvalidToken ==
  BearerRefused =>
    /\ seen.out.resp = Refused("invalid token")
    /\ seen.out.gate =
         Gate(<<WriteJSONError(401, "invalid token")>>, 0, Background)
    /\ \A tokenStr \in Presented :
         Reason(tokenStr) # "" =>
           AuthMiddleware(jwtService, <<Bearer, tokenStr>>, clock)
             = seen.out.gate

\* an expired token is refused while tokens failing for the three other
\* reasons can be presented
C13_Witness ==
  /\ BearerRefused
  /\ Reason(seen.in[2]) = "token is expired"
  /\ {Reason(tokenStr) : tokenStr \in Presented} \ {""}
       = {"token is malformed", "signature is invalid", "token is expired"}
  /\ Reason(EmptyToken) # ""

\* the pool entries whose token was issued at the current clock reading
JustIssued == {p \in pool : p.at = clock}

\* C14: whatever the secret of the service and the user id, a token verified
\* by the issuing service at the instant it was issued is accepted, and the
\* claims returned have UserID equal to the id it was issued for and
\* an ExpiresAt strictly later than the instant of issuance.
C14_VerifyAfterIssue ==
  /\ seen.op = "GenerateJWT" =>
       /\ seen.out.err = ""
       /\ Reason(seen.out.token) = ""
  /\ \A p \in JustIssued :
       (seen.op = "ValidateJWT" /\ seen.in = p.token) =>
         /\ seen.out.err = ""
         /\ seen.out.claims.UserID = p.uid
         /\ seen.out.claims.ExpiresAt * TicksPerSecond > p.at

C14_Witness ==
  /\ seen.op = "ValidateJWT"
  /\ jwtService.key = anotherSecret
  /\ clock = 1
  /\ \E p \in JustIssued :
       seen.in = p.token /\ seen.out.err = "" /\ seen.out.claims.UserID = 99

\* the last call verified the issued token of pool entry p
Verified(p) == seen.op = "ValidateJWT" /\ seen.in = p.token

\* C15 as stated: a token issued at t0 expires at t0 + 24 hours: it carries
\* that instant, is accepted at every instant before it and refused at every
\* instant after it.
C15_ExpiryAtIssuePlusTTL ==
  \A p \in pool :
    /\ p.token.claims.exp * TicksPerSecond = p.at + Lifetime
    /\ Verified(p) =>
         /\ clock < p.at + Lifetime => seen.out.err = ""
         /\ clock > p.at + Lifetime => seen.out.err # ""

\* C15 amended: a token issued at t0 carries exp = (t0 truncated to whole
\* seconds) + 24 hours, whatever the call; the issuing service accepts it at
\* every instant before exp and refuses it, by returning an error and no
\* claims, at exp and at every instant after it.
C15_ExpiryAtWholeSecond ==
  \A p \in pool :
    /\ p.token.claims.exp = Unix(p.at) + TokenTTL
    /\ Verified(p) =>
         IF clock < p.token.claims.exp * TicksPerSecond
           THEN /\ seen.out.err = ""
                /\ seen.out.claims.ExpiresAt = p.token.claims.exp
           ELSE seen.out = Failed("token is expired")

\* a token issued half a second after a whole second is refused 24 hours
\* after that whole second, half a second before t0 + 24 hours
C15_Witness ==
  \E p \in pool :
    /\ p.at = 1
    /\ Verified(p)
    /\ clock = Lifetime
    /\ clock < p.at + Lifetime
    /\ seen.out = Failed("token is expired")

\* the token string is well formed and signed with a secret other than the
\* secret of jwtService
ForeignSigned(tokenStr) ==
  \E secret \in Secrets \ {jwtService.key} :
    tokenStr = SignedString(tokenStr.claims, secret)

\* C16: a token signed with a secret other than the verifying service's is
\* refused whatever its claims, be it verified directly or presented at the
\* gate; and of two services constructed with different secrets neither
\* accepts a token the other issued.
C16_ForeignSecretRefused ==
  /\ (seen.op = "ValidateJWT" /\ ForeignSigned(seen.in)) => seen.out.err # ""
  /\ (GateCall /\ Len(seen.in) = 2 /\ ForeignSigned(seen.in[2])) =>
       seen.out.gate.calls = 0
  /\ \A p \in pool : ValidateJWT(otherService, p.token, clock).err # ""
  /\ \A userID \in UserIDs :
       Reason(GenerateJWT(otherService, userID, clock).token) # ""

\* a token of the other service, with a user id this service has issued a
\* token for and an expiry a day ahead, is refused
C16_Witness ==
  /\ seen.op = "ValidateJWT"
  /\ seen.in = GenerateJWT(otherService, 99, clock).token
  /\ \E p \in pool : p.uid = 99 /\ p.token.claims = seen.in.claims
  /\ seen.out = Failed("signature is invalid")

\* the last call was a verification the service refused
VerifyRefused == seen.op = "ValidateJWT" /\ seen.out.err # ""

\* C17 as stated: verification refuses the empty string, a string that is no
\* token, an issued token with characters appended, a token with a foreign
\* signature and an expired token, and what it returns to the caller is the
\* same in all these cases: the result of a refused verification equals the
\* result of every other verification that would be refused at that instant.
C17_SingleInvalidOutcome ==
  /\ Reason(EmptyToken) # "" /\ Reason(GarbageToken) # ""
  /\ \A p \in pool :
       /\ Reason([p.token EXCEPT !.tail = "tampered"]) # ""
       /\ clock >= p.token.claims.exp * TicksPerSecond => Reason(p.token) # ""
  /\ \A tokenStr \in Presented : ForeignSigned(tokenStr) => Reason(tokenStr) # ""
  /\ VerifyRefused =>
       \A tokenStr \in Presented :
         Reason(tokenStr) # "" =>
           ValidateJWT(jwtService, tokenStr, clock) = seen.out

\* the token string is what signing its claims with the secret of jwtService
\* gives, and its expiry is ahead of the clock
Valid(tokenStr) ==
  /\ tokenStr = SignedString(tokenStr.claims, jwtService.key)
  /\ clock < tokenStr.claims.exp * TicksPerSecond

\* C18: no call changes the secret the service was constructed with; whether
\* a verification, direct or at the gate, accepts a token is decided by the
\* token string, that secret and the clock alone; and in every state, that is
\* after any sequence of issuances, verifications, logins and refusals, every
\* issued token that has not expired is accepted.
C18_Stateless ==
  /\ [][jwtService' = jwtService]_vars
  /\ [](/\ seen.op = "ValidateJWT" => (seen.out.err = "" <=> Valid(seen.in))
        /\ (GateCall /\ Len(seen.in) = 2 /\ seen.in[1] = Bearer) =>
             (seen.out.gate.calls = 1 <=> Valid(seen.in[2]))
        /\ \A p \in pool :
             clock < p.token.claims.exp * TicksPerSecond =>
               Reason(p.token) = "")

\* a token issued at the start is accepted one tick before its expiry
C18_Witness ==
  \E p \in pool :
    /\ p.at = 0
    /\ clock = Lifetime - 1
    /\ Verified(p)
    /\ seen.out.err = ""

\* ---- vocabulary of the properties of Login ----

\* the last call was a Login whose body decoded with both fields filled in
LoginWithCredentials ==
  /\ seen.op = "Login"
  /\ seen.in.decodeOk /\ seen.in.email # "" /\ seen.in.password # ""

InvalidCredentials == WriteJSONError(401, "invalid credentials")

\* C19: a Login with non-empty email and password answers HTTP 401
\* {"message": "invalid credentials"} when the user lookup fails and when the
\* user is found but the password does not match; the two responses to the
\* same request are equal, and in neither case is a token signed or
\* returned.
C19_NoUserEnumeration ==
  (LoginWithCredentials /\ (seen.in.findErr \/ seen.in.checkErr)) =>
    /\ seen.out.write = InvalidCredentials
    /\ seen.out.effects \cap {"sign", "token"} = {}
    /\ \A userID \in UserIDs, genErr \in BOOLEAN :
         LoginOutcome(TRUE, seen.in.email, seen.in.password, TRUE,
                      userID, FALSE, genErr, clock).write
           = LoginOutcome(TRUE, seen.in.email, seen.in.password, FALSE,
                          userID, TRUE, genErr, clock).write

\* the user exists and the password does not match
C19_Witness ==
  /\ LoginWithCredentials
  /\ ~seen.in.findErr /\ seen.in.checkErr
  /\ seen.out.write = InvalidCredentials
  /\ seen.out.effects = {"lookup", "pwcheck"}

\* the conditions under which Login issues a token
LoginSucceeds(i) ==
  /\ i.email # "" /\ i.password # ""
  /\ ~i.findErr /\ ~i.checkErr /\ ~i.genErr

\* C20: Login answers 200 with a token if and only if email and password are
\* both non-empty, FindByEmail returns a user, CheckPassword accepts the
\* password against that user and the signing succeeds; the token of the
\* response is then accepted by the service with UserID equal to the ID of
\* that user.  With an empty email or an empty password Login answers 400
\* and FindByEmail is not called, whatever it would have returned.
C20_LoginContract ==
  seen.op = "Login" =>
    /\ seen.out.write.status = 200 <=> LoginSucceeds(seen.in)
    /\ "token" \in seen.out.effects <=> seen.out.write.status = 200
    /\ seen.out.write.status = 200 =>
         LET v == ValidateJWT(jwtService, seen.out.write.body.token, clock) IN
         /\ seen.out.effects = {"lookup", "pwcheck", "sign", "token"}
         /\ v.err = ""
         /\ v.claims.UserID = seen.in.userID
         /\ \E p \in pool :
              p.token = seen.out.write.body.token /\ p.uid = seen.in.userID
    /\ (seen.in.email = "" \/ seen.in.password = "") =>
         /\ seen.out.write.status = 400
         /\ seen.out.effects = {}

\* a successful login of user 99, its token accepted by the gate's service
C20_Witness ==
  /\ seen.op = "Login"
  /\ LoginSucceeds(seen.in)
  /\ seen.in.userID = 99
  /\ seen.out.write.status = 200
  /\ Reason(seen.out.write.body.token) = ""

\* ---- vocabulary of the properties of the password functions ----

\* the last call checked this password against the i-th hash computed
Checked(password, i) ==
  /\ seen.op = "CheckPassword"
  /\ seen.in = [password |-> password, hash |-> hashes[i].hash]

\* C21: HashPassword succeeds and its result is not the plaintext; two calls
\* of HashPassword, even with the same plaintext, return different strings;
\* CheckPassword of a plaintext against a hash of that plaintext returns nil,
\* and CheckPassword of any other plaintext (the empty one included) against
\* it returns an error.
C21_HashVerify ==
  /\ seen.op = "HashPassword" =>
       seen.out.err = "" /\ seen.out.hash # Str(seen.in)
  /\ \A i, j \in DOMAIN hashes :
       /\ hashes[i].hash # Str(hashes[i].password)
       /\ i # j => hashes[i].hash # hashes[j].hash
  /\ \A i \in DOMAIN hashes : \A q \in PlainTexts :
       Checked(q, i) => (seen.out.err = "" <=> q = hashes[i].password)

\* two hashes of one password, the empty password refused against one of them
C21_Witness ==
  \E i, j \in DOMAIN hashes :
    /\ i # j /\ hashes[i].password = hashes[j].password
    /\ hashes[i].password # ""
    /\ Checked("", i)
    /\ seen.out.err # ""

\* ---- vocabulary of the properties of user creation ----

\* the checks of Create that precede repo.Create
CreateChecksPass(i) ==
  /\ TrimSpace(i.firstName) # ""
  /\ TrimSpace(i.lastName) # ""
  /\ ValidateEmail(ToLower(TrimSpace(i.email))) = ""
  /\ ~i.hashErr

\* the checks of PostUser that precede service.Create
BodyAccepted(i) ==
  /\ i.decodeOk
  /\ i.firstName # "" /\ i.lastName # "" /\ i.email # ""
  /\ TrimSpace(i.password) # "" /\ ~ShorterThan8(i.password)

\* C22: Create calls the repository's Create exactly when first name and last
\* name are non-blank after trimming, the trimmed and lower-cased email is
\* valid and hashing succeeded; on a failure of any of these it returns
\* (nil, error) without calling the repository, and the user it hands to the
\* repository carries the trimmed names and the normalized email.  PostUser
\* reaches the repository only through these checks and answers 500 when
\* hashing fails.
C22_StoreAfterChecks ==
  /\ seen.op = "Create" =>
       /\ "insert" \in seen.out.effects <=> CreateChecksPass(seen.in)
       /\ ~CreateChecksPass(seen.in) =>
            seen.out.kind # "ok" /\ seen.out.user = NoUser
       /\ seen.out.kind = "ok" =>
            /\ "insert" \in seen.out.effects
            /\ seen.out.user =
                 [firstName |-> TrimSpace(seen.in.firstName),
                  lastName |-> TrimSpace(seen.in.lastName),
                  email |-> ToLower(TrimSpace(seen.in.email))]
  /\ seen.op = "PostUser" =>
       /\ "insert" \in seen.out.effects <=>
            (BodyAccepted(seen.in) /\ CreateChecksPass(seen.in))
       /\ (BodyAccepted(seen.in)
             /\ CreateChecksPass([seen.in EXCEPT !.hashErr = FALSE])
             /\ seen.in.hashErr) =>
            /\ seen.out.write.status = 500
            /\ seen.out.effects = {"hash"}

\* a well-formed registration whose hashing fails
C22_Witness ==
  /\ seen.op = "PostUser"
  /\ BodyAccepted(seen.in)
  /\ seen.in.email = " A@X.io "
  /\ seen.in.hashErr
  /\ seen.out.write.status = 500
  /\ "insert" \notin seen.out.effects

\* ---- vocabulary of the properties of concurrent requests ----

\* the decisions taken on limiter l from decision i on with no time elapsed
SameInstant(l, i) == {j \in EntriesOn(l) : j >= i /\ log[j].t = log[i].t}
Min(a, b) == IF a <= b THEN a ELSE b
\* the workers that are past the registry lookup of a request of key k
PastLookup(k) == {w \in Workers : pc[w] \in {"allow", "done"} /\ req[w].ip = k}

\* C23: of the k decisions taken on one bucket at one instant, the first of
\* which finds c whole tokens available, exactly min(k, c) are admissions,
\* in every interleaving of the workers; and as long as no entry of a key
\* has been removed, all requests of that key, concurrent ones included,
\* have created one limiter object altogether, at most one of them created
\* it, and each of them decides on that one object.
C23_NoLostUpdate ==
  /\ \A l \in DOMAIN heap : \A i \in EntriesOn(l) :
       LET S == SameInstant(l, i) IN
       Cardinality({j \in S : log[j].ok})
         = Min(Cardinality(S), log[i].avail \div One)
  /\ \A k \in Keys :
       NoRemovalOf(k) =>
         /\ Cardinality(LimitersOf(k)) <= 1
         /\ \A w \in PastLookup(k) : limiter[w] \in LimitersOf(k)
         /\ \A w, v \in PastLookup(k) :
              (created[w] /\ created[v] /\ limiter[w] = limiter[v]) => w = v

\* two overlapping first requests of one client on a bucket of one token:
\* the one that created the entry decided second and was denied
C23_Witness ==
  \E w, v \in Workers :
    /\ w # v /\ cfg.burst = 1
    /\ pc[w] = "done" /\ pc[v] = "done"
    /\ req[w].ip = req[v].ip /\ limiter[w] = limiter[v]
    /\ created[w] /\ ~created[v]
    /\ ~admitted[w] /\ admitted[v]
    /\ Cardinality(SameInstant(limiter[w], FirstOf(EntriesOn(limiter[w])))) = 2

\* ---- vocabulary of the properties of the sweep ----

SweepStep == cpc = "sweep" /\ cpc' = "sleep"
LookupBy(w) == pc[w] = "locked" /\ pc'[w] = "allow"
\* the idle time of a registered key, counted from the last lookup made for it
IdleFor(k) == now - clients[k].lastSeen

\* C24: every lookup made for a request, whether the request is then admitted
\* or denied, leaves the key registered with lastSeen = now, and nothing else
\* moves lastSeen; a sweep removes exactly the registered keys that have been
\* idle for more than IdleThreshold and leaves every other entry and every
\* limiter object unchanged; no other step removes or alters an entry, so an
\* entry is removed only after more than IdleThreshold without a lookup,
\* whatever was decided for its requests; and a key that has a finished
\* request and no entry has had its entry removed by a sweep.
C24_SweepExact ==
  /\ [][/\ SweepStep =>
             /\ \A k \in Keys :
                  clients'[k] = IF clients[k] # NoClient
                                   /\ IdleFor(k) > IdleThreshold
                                  THEN NoClient ELSE clients[k]
             /\ heap' = heap
        /\ \A w \in Workers :
             LookupBy(w) =>
               /\ clients'[req[w].ip] # NoClient
               /\ clients'[req[w].ip].lastSeen = now
               /\ \A k \in Keys \ {req[w].ip} : clients'[k] = clients[k]
        /\ \A k \in Keys :
             clients'[k] # clients[k] =>
               \/ SweepStep
               \/ \E w \in Workers : LookupBy(w) /\ req[w].ip = k]_vars
  /\ [](\A w \in Workers :
          LET k == req[w].ip IN
          (pc[w] = "done" /\ clients[k] = NoClient) =>
            \E l \in LimitersOf(k) : ~Registered(l))

\* a client denied at minute 2 survives the sweep of minute 4 although its
\* bucket was last refilled at minute 0
C24_Witness ==
  \E k \in Keys :
    /\ now = 4 /\ cpc = "sleep" /\ sleepLeft = SleepInterval
    /\ clients[k] # NoClient
    /\ clients[k].lastSeen = 2
    /\ heap[clients[k].limiter].last = 0
    /\ \E i \in EntriesOf(k) : log[i].t = 2 /\ ~log[i].ok

\* ---- vocabulary of the properties under fair scheduling ----

\* the lastSeen values whose removal falls within the model's horizon
Removable == 0 .. (MaxSweepTime - IdleThreshold - SleepInterval)

\* C25: with the sweeper scheduled, an entry that is not looked up again is
\* eventually removed by a sweep, and every registered key was looked up at
\* most IdleThreshold + SleepInterval ago.
C25_IdleEventuallyRemoved ==
  /\ \A k \in Clients : \A t \in Removable :
       (clients[k] # NoClient /\ clients[k].lastSeen = t)
         ~> (clients[k] = NoClient \/ clients[k].lastSeen > t)
  /\ [](\A k \in Keys :
          clients[k] # NoClient => IdleFor(k) <= IdleThreshold + SleepInterval)

\* an entry removed by the sweep at IdleThreshold + SleepInterval after its
\* only lookup, the sweep one minute earlier having kept it
C25_Witness ==
  \E k \in Keys :
    /\ clients[k] = NoClient
    /\ LimitersOf(k) # {}
    /\ \A i \in EntriesOf(k) : log[i].t = 0
    /\ EntriesOf(k) # {}
    /\ now = IdleThreshold + SleepInterval
    /\ cpc = "sleep" /\ sleepLeft = SleepInterval

\* ---- the reference token bucket ----

\* the last admission on limiter l before decision j (0: none)
LastAdmission(l, j) ==
  LET P == {i \in EntriesOn(l) : i < j /\ log[i].ok} IN
  IF P = {} THEN 0 ELSE CHOOSE i \in P : \A h \in P : h <= i

\* what a reference bucket of limiter l holds at decision j: full before its
\* first admission; afterwards what the last admission left, refilled at the
\* configured rate since then, capped at the capacity
Reference(l, j) ==
  LET i == LastAdmission(l, j) IN
  IF i = 0 THEN Cap
  ELSE Min(Cap, (log[i].avail - One) + (log[j].t - log[i].t) * cfg.num)

\* C26: every decision on a limiter object finds available exactly what the
\* reference bucket holds, counted from the last admission on that object,
\* and is an admission iff that is at least one token; the denials in
\* between change nothing.
C26_ReferenceBucket ==
  \A l \in DOMAIN heap : \A j \in EntriesOn(l) :
    /\ log[j].avail = Reference(l, j)
    /\ log[j].ok <=> Reference(l, j) >= One

\* a denial at minute 1 and a denial at minute 2 after an admission at
\* minute 0: the second one finds the refill of two minutes
C26_Witness ==
  \E l \in DOMAIN heap : \E i, j, k \in EntriesOn(l) :
    /\ i < j /\ j < k
    /\ log[i].ok /\ ~log[j].ok /\ ~log[k].ok
    /\ log[i].t = 0 /\ log[j].t = 1 /\ log[k].t = 2
    /\ log[i].avail = One
    /\ log[k].avail = 2 * cfg.num

\* C27: rl.mu is not held by the cleanup goroutine while it sleeps, and a
\* worker holds it only inside getLimiter: the step that calls Allow, writes
\* the 429 or runs the handler is taken without the lock and does not touch
\* it.  Under fair scheduling a held lock is released, every request that
\* entered the middleware gets its decision and is served or rejected, and
\* a sweep that is due is carried out.
C27_LockNeverBlocks ==
  /\ [](cpc = "sleep" => mu # Cleaner)
  /\ [](\A w \in Workers : HeldBy(w) => pc[w] = "locked")
  /\ [][\A w \in Workers : AllowBy(w) => (~HeldBy(w) /\ mu' = mu)]_vars
  /\ (mu # Free) ~> (mu = Free)
  /\ \A w \in Workers : WorkerRunnable(w) ~> (pc[w] = "done")
  /\ SweeperRunnable ~> ~SweeperRunnable

\* one request is decided while the sweeper holds the lock and the other
\* request is still to be decided
C27_Witness ==
  \E w, v \in Workers :
    /\ mu = Cleaner /\ cpc = "sweep"
    /\ pc[w] = "done" /\ Len(resp[w]) >= 1
    /\ pc[v] = "allow"

\* the limiter object registered for the key of the request of w (NoLimiter:
\* the key has no entry)
RegisteredFor(w) == clients[req[w].ip].limiter

\* C28: between the lookup of a request and its call of Allow the entry it
\* looked up stays in the registry, and the call of Allow consumes from the
\* limiter object that is registered for the request's key at that moment.
C28_DecisionOnRegisteredBucket ==
  /\ [](\A w \in Workers : pc[w] = "allow" => RegisteredFor(w) = limiter[w])
  /\ [][\A w \in Workers : AllowBy(w) => RegisteredFor(w) = limiter[w]]_vars

\* ---- vocabulary of the properties of the limiter of main() ----

\* the decisions for client c taken before decision i at the same instant
Before(c, i) == {j \in EntriesOf(c) : j < i /\ log[j].t = log[i].t}

\* C29: the limiter is the one of main(), one token per second and burst 5;
\* every request to users or to login passes through it: it is admitted or
\* answered with the limiter's 429; all decisions for a client, whichever of
\* the two routes they are for, are taken on one limiter object; and a
\* request to either route that follows at once on burst decisions for the
\* same client is answered with 429.
C29_SharedLimiter ==
  /\ cfg = [num |-> 60, den |-> 1, burst |-> 5]
  /\ \A c \in Clients : Cardinality({log[i].lim : i \in EntriesOf(c)}) <= 1
  /\ \A w \in Workers :
       (pc[w] = "done" /\ req[w].route \in {"users", "login"}) =>
         /\ admitted[w] \/ resp[w] = TooMany
         /\ log[Len(log)].from = req[w].from
         /\ log[Len(log)].ok = admitted[w]
         /\ Cardinality(Before(req[w].from, Len(log))) >= 5 => ~admitted[w]

\* five requests to login, each of which got as far as verifying a password,
\* and then at once a request to users from the same host: rejected
C29_Witness ==
  \E w \in Workers :
    /\ pc[w] = "done" /\ req[w].route = "users"
    /\ pwChecks[req[w].from] = 5
    /\ Cardinality(Before(req[w].from, Len(log))) = 5
    /\ \A j \in Before(req[w].from, Len(log)) : log[j].ok
    /\ ~admitted[w] /\ resp[w] = TooMany /\ calls[w] = 0

\* ---- vocabulary of the properties of the bucket key ----

\* the key of the bucket on which decision i was taken
KeyOf(i) == heap[log[i].lim].key
\* the remote address of the request of decision i
AddrOf(i) ==
  CHOOSE a \in RemoteAddrs \cup BareAddrs : RemoteAddr(a) = log[i].from
\* whether that address has the form host:port
Splittable(i) == Len(AddrOf(i)) = 2

\* C30: a decision for a request from host:port is taken on the bucket whose
\* key is host, whatever the port; a decision for a request whose remote
\* address cannot be split is taken on the bucket whose key is empty; and
\* decisions with the same key are taken on the same limiter object, so
\* same-host requests share a bucket and so do all unsplittable ones.
C30_KeyIsHost ==
  /\ \A i \in DOMAIN log :
       KeyOf(i) = IF Splittable(i) THEN AddrOf(i)[1] ELSE ""
  /\ \A i, j \in DOMAIN log :
       /\ (Splittable(i) /\ Splittable(j)
             /\ AddrOf(i)[1] = AddrOf(j)[1]) => log[i].lim = log[j].lim
       /\ (~Splittable(i) /\ ~Splittable(j)) => log[i].lim = log[j].lim
       /\ KeyOf(i) # KeyOf(j) => log[i].lim # log[j].lim

\* on a bucket of one token: "A" is admitted, "B" (no port either) is denied
\* on the same bucket, and then "A:1111" is admitted on the bucket of A
C30_Witness ==
  /\ Len(log) = 3
  /\ log[1].from = "A" /\ log[1].ok
  /\ log[2].from = "B" /\ ~log[2].ok
  /\ log[2].lim = log[1].lim /\ KeyOf(1) = ""
  /\ log[3].from = "A:1111" /\ log[3].ok /\ KeyOf(3) = "A"

====
